---- MODULE Spec2Model ----
(***************************************************************************)
(* Model of the ScoreStore of the memory-game server (src/server.ts and    *)
(* its later revision src/unnamed/part_000): an in-memory score list, a    *)
(* buffer of scores not yet written to SQLite, a periodic checkpoint and a *)
(* SIGINT handler.  JavaScript runs every callback to completion, so each  *)
(* handler is one atomic action.                                           *)
(***************************************************************************)
EXTENDS Integers, Sequences, FiniteSets, TLC

VARIABLES
    scores,         \* ScoreStore.scores
    pendingScores,  \* ScoreStore.pendingScores
    db,             \* rows of table scores, in rowid order
    now,            \* last value returned by Date.now()
    status,         \* "running", "exited" (process.exit(0)), "crashed" (uncaught exception)
    cap,            \* the literal of the cap in add
    top,            \* the last getTop call since the last add: [limit, res], or NoTop
    uncaught,       \* an exception has left checkpoint into the callback that called it
    seed,           \* history: the rows of the table when the process started
    submitted       \* history: the entries created by add, in call order

vars == <<scores, pendingScores, db, now, status, cap, top, uncaught, seed, submitted>>

----------------------------------------------------------------------------
(* Bounds of the model *)

MaxSubmits == 3
MaxTime == 3
MaxSeed == 2
SmallCap == 2
MaxLoad == 3
LoadSubmits == 1

(* The cap of the later revision.  Within the bounds above it is never     *)
(* reached, which is also the behaviour of src/server.ts, whose add has no *)
(* cap; SmallCap stands for the same literal scaled to the bounds.         *)
CAP == 1000

Names == {"a"}
Scores == 0..2
(* The limit GET /api/scores passes to getTop (src/server.ts passes 10,    *)
(* which returns the same within the bounds above).                        *)
RouteLimit == 100

(* The limits of direct calls of getTop: negative, zero, and one that is   *)
(* within or beyond the length of scores.                                  *)
Limits == {0 - 1, 0, 2}
CapValues == {SmallCap, CAP}

NoTop == [limit |-> 0 - 99, res |-> <<>>]

----------------------------------------------------------------------------
(* Helpers *)

Min(a, b) == IF a < b THEN a ELSE b
Max(a, b) == IF a > b THEN a ELSE b

Range(s) == {s[i] : i \in 1..Len(s)}

Count(s, e) == Cardinality({i \in 1..Len(s) : s[i] = e})

ScoreEntry(name, score, timestamp) ==
    [name |-> name, score |-> score, timestamp |-> timestamp]

(* Array.prototype.slice(start, end) with its treatment of negative and    *)
(* out-of-range indices.                                                   *)
Slice(s, start, end) ==
    LET len == Len(s)
        k == IF start < 0 THEN Max(len + start, 0) ELSE Min(start, len)
        final == IF end < 0 THEN Max(len + end, 0) ELSE Min(end, len)
    IN  IF final <= k THEN <<>> ELSE SubSeq(s, k + 1, final)

(* A plausible slip: the operands of the comparator are exchanged *)
CompareAscending(a, b) == a.score - b.score

(* The comparator handed to sort in add: negative when a goes first.       *)
Compare(a, b) == b.score - a.score

(* Insert x into the sorted sequence s behind every element that does not  *)
(* compare greater than it: one step of a stable sort.                     *)
InsertStable(s, x) ==
    LET later == {i \in 1..Len(s) : Compare(s[i], x) > 0}
        pos == IF later = {} THEN Len(s) + 1
               ELSE CHOOSE i \in later : \A j \in later : i <= j
    IN  SubSeq(s, 1, pos - 1) \o <<x>> \o SubSeq(s, pos, Len(s))

RECURSIVE SortFrom(_, _)
SortFrom(acc, rest) ==
    IF rest = <<>> THEN acc
    ELSE SortFrom(InsertStable(acc, Head(rest)), Tail(rest))

(* Array.prototype.sort(Compare): stable *)
Sort(s) == SortFrom(<<>>, s)

(* The row written by insert.run for one entry *)
Row(s) == [name |-> s.name, score |-> s.score, timestamp |-> s.timestamp]

(* A plausible slip: ORDER BY score DESC alone *)
RowBeforeScoreOnly(a, b) == a.score >= b.score

(* ORDER BY score DESC, timestamp DESC *)
RowBefore(a, b) ==
    \/ a.score > b.score
    \/ a.score = b.score /\ a.timestamp >= b.timestamp

(* The results the SELECT of the constructor may return for a table: every *)
(* arrangement of its rows in the requested order (rows equal in score and *)
(* timestamp come in an order SQLite does not fix).                        *)
LoadAll(rows) ==
    {s \in [1..Len(rows) -> Range(rows)] :
        /\ \A e \in Range(rows) : Count(s, e) = Count(rows, e)
        /\ \A i \in 1..(Len(s) - 1) : RowBefore(s[i], s[i + 1])}

(* A plausible slip: the cap keeps one entry too few *)
TruncateOffByOne(s, c) == IF Len(s) > c THEN Slice(s, 0, c - 1) ELSE s

(* add: the cap of the later revision *)
Truncate(s, c) == IF Len(s) > c THEN Slice(s, 0, c) ELSE s

(* A plausible slip: what the cap evicts from scores is dropped from the   *)
(* unflushed buffer as well.                                               *)
addEvictsPending(s, p, entry, c) ==
    LET kept == Truncate(Sort(Append(s, entry)), c)
        InKept(e) == e \in Range(kept)
    IN  [scores |-> kept, pendingScores |-> SelectSeq(Append(p, entry), InKept)]

(* add: push on both arrays, sort scores, cut scores to the cap *)
add(s, p, entry, c) ==
    [scores |-> Truncate(Sort(Append(s, entry)), c),
     pendingScores |-> Append(p, entry)]

(* getTop(limit) *)
getTop(s, limit) == Slice(s, 0, limit)

(* A plausible slip: the loop over the batch starts one entry late *)
InsertAllSkipFirst(rows, batch) ==
    IF batch = <<>> THEN rows
    ELSE rows \o [i \in 1..(Len(batch) - 1) |-> Row(batch[i + 1])]

(* A plausible slip: the batch is walked from its end *)
InsertAllReversed(rows, batch) ==
    rows \o [i \in 1..Len(batch) |-> Row(batch[Len(batch) + 1 - i])]

(* The transaction of checkpoint: insert.run for each entry, in order *)
RECURSIVE InsertAll(_, _)
InsertAll(rows, batch) ==
    IF batch = <<>> THEN rows
    ELSE InsertAll(Append(rows, Row(Head(batch))), Tail(batch))

(* A plausible slip: the buffer is not reset after the write *)
checkpointKeepsBuffer(p, rows, ok) ==
    IF Len(p) = 0 THEN [pendingScores |-> p, db |-> rows, threw |-> FALSE]
    ELSE IF ok THEN [pendingScores |-> p, db |-> rows \o [i \in 1..Len(p) |-> Row(p[i])], threw |-> FALSE]
    ELSE [pendingScores |-> p, db |-> rows, threw |-> TRUE]

(* A plausible slip: the buffer is reset before the write (swap, then write) *)
checkpointDropsBatch(p, rows, ok) ==
    IF Len(p) = 0 THEN [pendingScores |-> p, db |-> rows, threw |-> FALSE]
    ELSE IF ok THEN [pendingScores |-> <<>>, db |-> rows \o [i \in 1..Len(p) |-> Row(p[i])], threw |-> FALSE]
    ELSE [pendingScores |-> <<>>, db |-> rows, threw |-> TRUE]

(* A plausible slip: the write is wrapped in a try/catch that only logs *)
checkpointSwallows(p, rows, ok) ==
    IF Len(p) = 0 THEN [pendingScores |-> p, db |-> rows, threw |-> FALSE]
    ELSE IF ok THEN [pendingScores |-> <<>>, db |-> rows \o [i \in 1..Len(p) |-> Row(p[i])], threw |-> FALSE]
    ELSE [pendingScores |-> p, db |-> rows, threw |-> FALSE]

(* A plausible slip: a catch around the write that logs and resets the buffer *)
checkpointSwallowsAndClears(p, rows, ok) ==
    IF Len(p) = 0 THEN [pendingScores |-> p, db |-> rows, threw |-> FALSE]
    ELSE IF ok THEN [pendingScores |-> <<>>, db |-> rows \o [i \in 1..Len(p) |-> Row(p[i])], threw |-> FALSE]
    ELSE [pendingScores |-> <<>>, db |-> rows, threw |-> FALSE]

(* checkpoint: ok tells whether the transaction commits; when it throws,   *)
(* the transaction is rolled back and the assignment after it is skipped.  *)
checkpoint(p, rows, ok) ==
    IF Len(p) = 0 THEN [pendingScores |-> p, db |-> rows, threw |-> FALSE]
    ELSE IF ok THEN [pendingScores |-> <<>>, db |-> InsertAll(rows, p), threw |-> FALSE]
    ELSE [pendingScores |-> p, db |-> rows, threw |-> TRUE]

(* What the runtime does with an exception no callback catches: it ends    *)
(* the process, or reports it and keeps the event loop running.            *)
AfterUncaught == {"crashed", "running"}

----------------------------------------------------------------------------
(* State machine *)

SeedEntries == {ScoreEntry("x", 1, 0), ScoreEntry("x", 2, 1)}
SeedDBs == UNION {[1..n -> SeedEntries] : n \in 0..MaxSeed}

Init ==
    /\ cap \in CapValues
    /\ db \in SeedDBs
    /\ scores \in LoadAll(db)
    /\ pendingScores = <<>>
    /\ now = 1
    /\ status = "running"
    /\ top = NoTop
    /\ uncaught = FALSE
    /\ seed = db
    /\ submitted = <<>>

(* A plausible slip: add inserts its row at once as well as buffering it *)
AddWritesThrough(name, score) ==
    /\ status = "running"
    /\ Len(submitted) < MaxSubmits
    /\ \E t \in now..Min(now + 1, MaxTime) :
        LET entry == ScoreEntry(name, score, t) IN
        /\ now' = t
        /\ scores' = add(scores, pendingScores, entry, cap).scores
        /\ pendingScores' = add(scores, pendingScores, entry, cap).pendingScores
        /\ submitted' = Append(submitted, entry)
        /\ db' = Append(db, Row(entry))
    /\ top' = NoTop
    /\ UNCHANGED <<status, cap, uncaught, seed>>

Add(name, score) ==
    /\ status = "running"
    /\ Len(submitted) < MaxSubmits
    /\ \E t \in now..Min(now + 1, MaxTime) :
        LET entry == ScoreEntry(name, score, t) IN
        /\ now' = t
        /\ scores' = add(scores, pendingScores, entry, cap).scores
        /\ pendingScores' = add(scores, pendingScores, entry, cap).pendingScores
        /\ submitted' = Append(submitted, entry)
    /\ top' = NoTop
    /\ UNCHANGED <<db, status, cap, uncaught, seed>>

(* GET /api/scores: store.getTop(RouteLimit) *)
GetTop ==
    /\ status = "running"
    /\ top' = [limit |-> RouteLimit, res |-> getTop(scores, RouteLimit)]
    /\ UNCHANGED <<scores, pendingScores, db, now, status, cap, uncaught, seed, submitted>>

(* A plausible slip: splice in place of slice, which removes what it returns *)
CallGetTopSplices(limit) ==
    /\ status = "running"
    /\ top' = [limit |-> limit, res |-> getTop(scores, limit)]
    /\ scores' = SubSeq(scores, Len(getTop(scores, limit)) + 1, Len(scores))
    /\ UNCHANGED <<pendingScores, db, now, status, cap, uncaught, seed, submitted>>

(* A call of the method getTop(limit) itself, with any limit *)
CallGetTop(limit) ==
    /\ status = "running"
    /\ top' = [limit |-> limit, res |-> getTop(scores, limit)]
    /\ UNCHANGED <<scores, pendingScores, db, now, status, cap, uncaught, seed, submitted>>

(* A plausible slip: the timer reloads scores from the table after a write *)
TimerReloads ==
    /\ status = "running"
    /\ \E ok \in BOOLEAN :
        LET r == checkpoint(pendingScores, db, ok) IN
        /\ pendingScores' = r.pendingScores
        /\ db' = r.db
        /\ scores' \in LoadAll(r.db)
        /\ IF r.threw
           THEN /\ uncaught' = TRUE
                /\ status' \in AfterUncaught
           ELSE UNCHANGED <<uncaught, status>>
    /\ UNCHANGED <<now, cap, top, seed, submitted>>

Timer ==
    /\ status = "running"
    /\ \E ok \in BOOLEAN :
        LET r == checkpoint(pendingScores, db, ok) IN
        /\ pendingScores' = r.pendingScores
        /\ db' = r.db
        /\ IF r.threw
           THEN /\ uncaught' = TRUE
                /\ status' \in AfterUncaught
           ELSE UNCHANGED <<uncaught, status>>
    /\ UNCHANGED <<scores, now, cap, top, seed, submitted>>

Sigint ==
    /\ status = "running"
    /\ \E ok \in BOOLEAN :
        LET r == checkpoint(pendingScores, db, ok) IN
        /\ pendingScores' = r.pendingScores
        /\ db' = r.db
        /\ IF r.threw
           THEN /\ uncaught' = TRUE
                /\ status' \in AfterUncaught
           ELSE /\ UNCHANGED uncaught
                /\ status' = "exited"
    /\ UNCHANGED <<scores, now, cap, top, seed, submitted>>

Next ==
    \/ \E name \in Names, score \in Scores : Add(name, score)
    \/ GetTop
    \/ Timer
    \/ Sigint

Spec == Init /\ [][Next]_vars

(* The process started on a larger table, whose rows tie in score, and     *)
(* followed for a few requests.                                            *)
LoadEntries == {ScoreEntry("x", s, t) : s \in 1..2, t \in 0..1}
LoadDBs == UNION {[1..n -> LoadEntries] : n \in 0..MaxLoad}

InitLoad ==
    /\ cap \in CapValues
    /\ db \in LoadDBs
    /\ scores \in LoadAll(db)
    /\ pendingScores = <<>>
    /\ now = 1
    /\ status = "running"
    /\ top = NoTop
    /\ uncaught = FALSE
    /\ seed = db
    /\ submitted = <<>>

NextLoad ==
    \/ /\ Len(submitted) < LoadSubmits
       /\ \E name \in Names, score \in Scores : Add(name, score)
    \/ GetTop
    \/ Timer
    \/ Sigint

SpecLoad == InitLoad /\ [][NextLoad]_vars

(* The store with getTop called as a method, with any limit, between the   *)
(* adds and checkpoints.                                                   *)
NextTop ==
    \/ \E name \in Names, score \in Scores : Add(name, score)
    \/ \E limit \in Limits : CallGetTop(limit)
    \/ Timer
    \/ Sigint

SpecTop == Init /\ [][NextTop]_vars

(* The write path alone, from an empty table, with the scheduling the      *)
(* timer gives: setInterval keeps calling checkpoint, and the write fails  *)
(* finitely often only, so that while entries wait and the process runs, a *)
(* timer checkpoint that commits comes at last.                            *)
InitLive == Init /\ db = <<>>

NextLive ==
    \/ \E name \in Names, score \in Scores : Add(name, score)
    \/ Timer
    \/ Sigint

SpecLive == InitLive /\ [][NextLive]_vars /\ WF_vars(Timer /\ db' # db)

TypeOK ==
    /\ status \in {"running", "exited", "crashed"}
    /\ cap \in CapValues
    /\ now \in 1..MaxTime
    /\ uncaught \in BOOLEAN
    /\ Len(submitted) <= MaxSubmits

----------------------------------------------------------------------------
(* Properties *)

(* The order the documentation gives the ranked list: score descending,    *)
(* then timestamp descending.                                              *)
RankedBefore(a, b) ==
    \/ a.score > b.score
    \/ a.score = b.score /\ a.timestamp >= b.timestamp

(* The rows written since the process started *)
Written == SubSeq(db, Len(seed) + 1, Len(db))

(* Steps, told by what they change *)
AddStep == submitted' # submitted
FlushStep == db' # db
FirstThrowStep == ~uncaught /\ uncaught'

(* C1: after any sequence of add calls, every adjacent pair of scores is   *)
(* ordered by score descending and, for equal scores, by timestamp         *)
(* descending (the later entry first).                                     *)
C1_SortedByScoreThenTime ==
    \A i \in 1..(Len(scores) - 1) : RankedBefore(scores[i], scores[i + 1])

(* C2: a checkpoint that writes leaves every entry submitted before it in  *)
(* the table, and its batch holds nothing but the entries submitted so far *)
(* and not yet written.                                                    *)
C2_CheckpointDurability ==
    [][FlushStep =>
        /\ \A e \in Range(submitted) :
              Count(db', e) = Count(seed, e) + Count(submitted, e)
        /\ Len(db') = Len(seed) + Len(submitted)
        /\ submitted' = submitted]_vars

C2_Witness ==
    /\ Len(submitted) >= 2
    /\ pendingScores = <<>>
    /\ Len(db) = Len(seed) + Len(submitted)

(* C3: whatever the interleaving of add with checkpoints that fail or      *)
(* succeed, every submitted entry is either written exactly once or still  *)
(* waiting in pendingScores: never lost, never written twice.              *)
C3_ExactlyOnce ==
    \A e \in Range(submitted) :
        /\ Count(Written, e) + Count(pendingScores, e) = Count(submitted, e)
        /\ Count(Written, e) <= Count(submitted, e)

C3_Witness ==
    /\ uncaught
    /\ Written # <<>>
    /\ pendingScores # <<>>
    /\ Len(submitted) = MaxSubmits

(* C4: a checkpoint whose write fails discards its batch: pendingScores is *)
(* empty right after the failed checkpoint, so that no later checkpoint    *)
(* writes an entry of the failed batch.                                    *)
C4_FailedBatchDiscarded ==
    [][FirstThrowStep => pendingScores' = <<>>]_vars

(* C5: no exception leaves checkpoint, and the process is never ended by   *)
(* one.                                                                    *)
C5_FailureContained ==
    /\ ~uncaught
    /\ status # "crashed"

(* C6: getTop(limit) returns the first min(max(limit, 0), Len(scores))     *)
(* entries of scores, in order, for negative limits too.                   *)
C6_TopIsClampedPrefix ==
    top # NoTop =>
        top.res = SubSeq(scores, 1, Min(Max(top.limit, 0), Len(scores)))

(* An entry that add has cut from scores, and one it has kept *)
Discarded(e, entry) == Count(Append(scores, entry), e) > Count(scores', e)
Kept(e) == Count(scores', e) > 0

(* C7: after an add, scores holds at most cap entries, and every entry the *)
(* cap has cut ranks at or below every entry kept (score descending, then  *)
(* timestamp descending).                                                  *)
C7_CapKeepsHighestRanked ==
    [][AddStep =>
        LET entry == submitted'[Len(submitted')]
            all == Range(scores) \cup {entry}
        IN  /\ Len(scores') <= cap
            /\ \A k \in all, d \in all :
                  Kept(k) /\ Discarded(d, entry) => RankedBefore(k, d)]_vars

(* C8: the cap touches scores only: an add appends its entry to            *)
(* pendingScores whatever the cap cuts, a checkpoint that writes writes    *)
(* every pending entry, in scores or not, and no step removes a row.       *)
C8_EvictionSparesPending ==
    [][/\ AddStep =>
            /\ pendingScores' = Append(pendingScores, submitted'[Len(submitted')])
            /\ db' = db
       /\ FlushStep =>
            \A e \in Range(pendingScores) :
                Count(db', e) = Count(db, e) + Count(pendingScores, e)
       /\ Len(db') >= Len(db)
       /\ SubSeq(db', 1, Len(db)) = db]_vars

(* The entry submitted last was cut from scores by its own add, and has    *)
(* been written since.                                                     *)
C8_Witness ==
    /\ Len(submitted) >= 1
    /\ LET e == submitted[Len(submitted)] IN
        /\ Count(submitted, e) = 1
        /\ e \notin Range(scores)
        /\ e \in Range(Written)

(* C9: whenever the process has left through process.exit(0) of the SIGINT *)
(* handler, pendingScores is empty and every submitted entry is a row.     *)
C9_ExitAfterFlush ==
    status = "exited" =>
        /\ pendingScores = <<>>
        /\ \A e \in Range(submitted) : Count(Written, e) = Count(submitted, e)

C9_Witness ==
    /\ status = "exited"
    /\ Len(submitted) >= 2
    /\ Len(Written) = Len(submitted)

RECURSIVE IsSubseq(_, _)
IsSubseq(s, t) ==
    IF s = <<>> THEN TRUE
    ELSE IF t = <<>> THEN FALSE
    ELSE IF Head(s) = Head(t) THEN IsSubseq(Tail(s), Tail(t))
    ELSE IsSubseq(s, Tail(t))

(* C10: the rows written since the start come in the order their entries   *)
(* were submitted: after the rows found at the start, the table is an      *)
(* order-preserving subsequence of the submissions.                        *)
C10_RowsInSubmissionOrder ==
    /\ Len(db) >= Len(seed)
    /\ SubSeq(db, 1, Len(seed)) = seed
    /\ IsSubseq(Written, submitted)

(* Every submission has been written, after a write that failed, and the   *)
(* submissions are not all alike.                                          *)
C10_Witness ==
    /\ Len(Written) = MaxSubmits
    /\ uncaught
    /\ \E i \in 1..(MaxSubmits - 1) : submitted[i] # submitted[i + 1]

(* A getTop call, told by the result it records *)
GetTopStep == top' # top /\ top' # NoTop

(* C12: getTop changes neither scores, pendingScores nor the table, and as *)
(* long as no add runs, whatever checkpoints do, a call with the limit of  *)
(* the call before returns what that call returned.                        *)
C12_TopIsPureRead ==
    [][/\ GetTopStep => UNCHANGED <<scores, pendingScores, db>>
       /\ top' # NoTop => top'.res = getTop(scores', top'.limit)]_vars

(* A call has returned a proper prefix of scores, and a failed and a       *)
(* committed write have run since the last add.                            *)
C12_Witness ==
    /\ top.limit = 2
    /\ Len(top.res) = 2
    /\ Len(scores) > 2
    /\ uncaught
    /\ pendingScores = <<>>
    /\ Len(submitted) >= 1

(* C13: pendingScores loses entries in one way only, a checkpoint whose    *)
(* write commits, which empties it; a checkpoint whose write fails leaves  *)
(* it as it was, and the only other change to it is the append of add.     *)
C13_PendingClearedOnlyBySuccess ==
    [][/\ pendingScores' # pendingScores =>
            \/ /\ AddStep
               /\ pendingScores' = Append(pendingScores, submitted'[Len(submitted')])
            \/ /\ FlushStep
               /\ db' = db \o pendingScores
               /\ pendingScores' = <<>>
       /\ FirstThrowStep => pendingScores' = pendingScores]_vars

C13_Witness ==
    /\ uncaught
    /\ status = "running"
    /\ Len(pendingScores) >= 2
    /\ Written # <<>>

(* C14: with the cap out of reach every pending entry is in scores, as     *)
(* often as it is pending; with the cap in reach a pending entry missing   *)
(* from scores has been cut by the cap: scores is full and holds no entry  *)
(* of a lower score.                                                       *)
C14_PendingInScores ==
    \A e \in Range(pendingScores) :
        Count(pendingScores, e) > Count(scores, e) =>
            /\ cap # CAP
            /\ Len(scores) >= cap
            /\ \A i \in 1..Len(scores) : scores[i].score >= e.score

(* With the cap out of reach, entries are pending after a write *)
C14_Witness ==
    /\ cap = CAP
    /\ Len(pendingScores) >= 2
    /\ Written # <<>>

(* C15: a checkpoint, whether it finds nothing to write, commits or fails, *)
(* leaves scores as it was (only add changes scores), and with             *)
(* pendingScores empty nothing is written.                                 *)
C15_CheckpointKeepsScores ==
    [][/\ ~AddStep => scores' = scores
       /\ pendingScores = <<>> => db' = db]_vars

(* After three adds and a failed checkpoint all three are in scores *)
C15_Witness ==
    /\ uncaught
    /\ cap = CAP
    /\ Len(submitted) = 3
    /\ db = seed
    /\ \A e \in Range(submitted) : Count(scores, e) = Count(submitted, e)

(* C16: an add leaves the table as it was, whether or not writes to it     *)
(* have failed, ends neither with an exception nor with the process, and   *)
(* appends exactly its entry to pendingScores.                             *)
C16_AddSparesStore ==
    [][AddStep =>
        /\ db' = db
        /\ status' = status
        /\ uncaught' = uncaught
        /\ Len(pendingScores') = Len(pendingScores) + 1
        /\ SubSeq(pendingScores', 1, Len(pendingScores)) = pendingScores
        /\ pendingScores'[Len(pendingScores')] = submitted'[Len(submitted')]]_vars

(* Entries have been added although a write has failed and none succeeded *)
C16_Witness ==
    /\ uncaught
    /\ status = "running"
    /\ db = seed
    /\ Len(pendingScores) = MaxSubmits

(* C17: scores is ordered by non-increasing score.                         *)
C17_ScoresNonIncreasing ==
    \A i \in 1..(Len(scores) - 1) : scores[i].score >= scores[i + 1].score

C17_Witness ==
    /\ Len(submitted) = MaxSubmits
    /\ Len(scores) >= 3
    /\ \E i \in 1..(Len(scores) - 1) : scores[i].score = scores[i + 1].score
    /\ \E i \in 1..(Len(scores) - 1) : scores[i].score > scores[i + 1].score
    /\ pendingScores = <<>>

(* C18: with the cap out of reach and every submission written, a cache    *)
(* constructed from the table holds the very sequence the running cache    *)
(* holds, so getTop returns the same before and after a restart.           *)
C18_RestartRoundTrip ==
    (cap = CAP /\ pendingScores = <<>>) =>
        \A restarted \in LoadAll(db) :
            /\ restarted = scores
            /\ \A limit \in Limits : getTop(restarted, limit) = getTop(scores, limit)

(* C11: until the first add, scores holds exactly the rows of the table,   *)
(* ordered by score descending and then timestamp descending,              *)
(* pendingScores is empty, and getTop returns a prefix of those rows: the  *)
(* first limit of them, or all when there are fewer.                       *)
C11_ConstructedFromStore ==
    submitted = <<>> =>
        /\ pendingScores = <<>>
        /\ db = seed
        /\ Len(scores) = Len(db)
        /\ \A e \in Range(db) : Count(scores, e) = Count(db, e)
        /\ \A i \in 1..(Len(scores) - 1) : RankedBefore(scores[i], scores[i + 1])
        /\ top # NoTop =>
            /\ \E n \in 0..Len(scores) : top.res = SubSeq(scores, 1, n)
            /\ top.limit >= 0 => Len(top.res) = Min(top.limit, Len(scores))

(* A table of three rows not stored in ranking order, two of them equal in *)
(* score and apart in time, has been loaded and read.                      *)
C11_Witness ==
    /\ submitted = <<>>
    /\ Len(seed) = 3
    /\ scores # seed
    /\ \E i \in 1..2 : /\ scores[i].score = scores[i + 1].score
                       /\ scores[i].timestamp > scores[i + 1].timestamp
    /\ top.limit = RouteLimit
    /\ top.res = scores

(* C20: scores never holds more than cap entries, from construction on.    *)
C20_CapAlways == Len(scores) <= cap

(* C19: when the timer keeps firing, the write fails finitely often only   *)
(* and the process is never ended by an exception, every submitted entry   *)
(* is a row at last, an entry of a batch whose write failed as well.       *)
C19_EventuallyDurable ==
    [](status # "crashed") =>
        \A i \in 1..MaxSubmits : (Len(submitted) >= i) ~> (Len(Written) >= i)

(* Every submission is a row although a write has failed *)
C19_Witness ==
    /\ uncaught
    /\ status = "running"
    /\ Len(submitted) = MaxSubmits
    /\ Written = submitted

====
